---- MODULE Spec2Model ----
(***************************************************************************)
(* Blog API (FastAPI + Supabase): token codec, identity resolver,          *)
(* registration/login flow and the ownership-gated blog operations.        *)
(*                                                                         *)
(* The hosted auth provider and the hosted tables "profiles" and "blogs"   *)
(* are the environment: authUsers, profiles and blogs hold their contents. *)
(* A request handler runs as a sequence of steps; the steps of different   *)
(* requests interleave.  A step ends after a call to an external service   *)
(* whose effect or result a concurrent request can change before the       *)
(* handler's next call: register's three calls, and the check and the      *)
(* write of update_blog and delete_blog.                                   *)
(*                                                                         *)
(* Spec is the service.  TokenSpec exercises the token codec and the       *)
(* identity resolver alone, on tokens the service itself never issues      *)
(* (explicit expiry durations, a signed token without a subject).          *)
(***************************************************************************)
EXTENDS Integers, FiniteSets, TLC

VARIABLES authUsers,   \* identities held by the auth provider
          profiles,    \* rows of table "profiles"
          blogs,       \* rows of table "blogs"
          nextBlogId,  \* the id the store gives the next inserted blog
          tokens,      \* tokens handed out in responses
          clock,       \* current time, in minutes
          req,         \* the requests, one per slot
          received,    \* number of requests received so far
          tk,          \* TokenSpec: the token under test
          tkIssue,     \* TokenSpec: how and when it was made
          tkRes        \* TokenSpec: the last decode / resolve result

vars == <<authUsers, profiles, blogs, nextBlogId, tokens, clock, req, received,
          tk, tkIssue, tkRes>>

tkVars == <<tk, tkIssue, tkRes>>

----------------------------------------------------------------------------
(* Bounds of the model *)

\* requests handled at the same time
MaxReq == 2
\* requests received in one behaviour
MaxRequests == 4
\* last minute of the clock
MaxClock == 63
\* longest explicit expiry duration tried, in minutes
MaxDelta == 2

(* config.py *)
access_token_expire_minutes == 60

Reqs == 1..MaxReq

\* Python's None
None == [none |-> TRUE]

\* result.data[0] if result.data else None
FirstOrNone(data) == IF data = {} THEN None ELSE CHOOSE x \in data : TRUE

----------------------------------------------------------------------------
(* Token codec: dependencies/auth.py *)

\* jwt.encode(claims, key): a signed token
JwtEncode(claims, key) == [form |-> "jwt", key |-> key, claims |-> claims]

\* a string that is no JWT
Malformed == [form |-> "garbage", key |-> "none", claims |-> [exp |-> 0]]

\* no Authorization header
NoToken == [form |-> "absent", key |-> "none", claims |-> [exp |-> 0]]

timedelta(m) == [minutes |-> m]

\* Python truthiness of Optional[timedelta]: None and timedelta(0) are falsy
Truthy(expires_delta) == expires_delta # None /\ expires_delta.minutes # 0

create_access_token(data, expires_delta, now) ==
  LET expire == now + (IF Truthy(expires_delta)
                         THEN expires_delta.minutes
                         ELSE access_token_expire_minutes)
  IN JwtEncode(("exp" :> expire) @@ data, "secret_key")

\* Mutant of JwtDecode: the expiry claim is not verified
JwtDecodeNoExpiry(token, now) ==
  IF token.form # "jwt" THEN "JWTError"
  ELSE IF token.key # "secret_key" THEN "JWTError"
  ELSE "ok"

\* jwt.decode(token, settings.secret_key): "ok", or the JWTError raised
JwtDecode(token, now) ==
  IF token.form # "jwt" THEN "JWTError"
  ELSE IF token.key # "secret_key" THEN "JWTError"
  ELSE IF token.claims.exp < now THEN "ExpiredSignatureError"
  ELSE "ok"

decode_access_token(token, now) ==
  IF JwtDecode(token, now) # "ok" THEN None
  ELSE IF "sub" \notin DOMAIN token.claims THEN None
  ELSE [user_id |-> token.claims.sub]

----------------------------------------------------------------------------
(* crud/user.py *)

\* Mutant of get_user_by_id: the filter on id is missing
get_user_by_id_unfiltered(db, user_id) == FirstOrNone(db)

get_user_by_id(db, user_id) == FirstOrNone({u \in db : u.id = user_id})

\* Mutant of get_user_by_email: the filter is on the wrong column
get_user_by_email_by_username(db, email) ==
  FirstOrNone({u \in db : u.username = email})

get_user_by_email(db, email) == FirstOrNone({u \in db : u.email = email})

\* Mutant of create_user_profile: the row is inserted without the identity's
\* id, and gets one of its own
create_user_profile_own_id(db, user_id, username, email) ==
  db \cup {[id |-> user_id + 1, username |-> username, email |-> email]}

\* Mutant of create_user_profile: nothing is inserted
create_user_profile_dropped(db, user_id, username, email) == db

\* the table after the insert
create_user_profile(db, user_id, username, email) ==
  db \cup {[id |-> user_id, username |-> username, email |-> email]}

----------------------------------------------------------------------------
(* Identity resolver: dependencies/auth.py *)

\* An HTTP response
Response(status, detail, body) ==
  [status |-> status, detail |-> detail, body |-> body]

NoResp == Response(0, "", None)

credentials_exception == Response(401, "Could not validate credentials", None)

\* OAuth2PasswordBearer: a request without a bearer token
not_authenticated == Response(401, "Not authenticated", None)

\* UserResponse(**user): the id becomes a UUID object
UserResponse(user) ==
  [id |-> [uuid |-> user.id], username |-> user.username, email |-> user.email]

\* str(uuid)
StrOfUUID(u) == u.uuid

\* Mutant of get_current_user: the token's subject is trusted without the
\* profile lookup
get_current_user_token_only(token, now, db) ==
  IF token = NoToken THEN [ok |-> FALSE, raised |-> not_authenticated]
  ELSE LET token_data == decode_access_token(token, now) IN
    IF token_data = None THEN [ok |-> FALSE, raised |-> credentials_exception]
    ELSE [ok |-> TRUE,
          user |-> UserResponse([id |-> token_data.user_id,
                                 username |-> "", email |-> ""])]

\* the profile, or the response raised
get_current_user(token, now, db) ==
  IF token = NoToken THEN [ok |-> FALSE, raised |-> not_authenticated]
  ELSE LET token_data == decode_access_token(token, now) IN
    IF token_data = None THEN [ok |-> FALSE, raised |-> credentials_exception]
    ELSE LET user == get_user_by_id(db, token_data.user_id) IN
      IF user = None THEN [ok |-> FALSE, raised |-> credentials_exception]
      ELSE [ok |-> TRUE, user |-> UserResponse(user)]

----------------------------------------------------------------------------
(* models/blog.py *)

\* a JSON value of a request body; JSON null is None
Val(v) == [v |-> v]

\* Request bodies sent to POST /blogs/ (some carry an author field)
CreateBodies ==
  { [title |-> Val("t1"), body |-> Val("b1")],
    [title |-> Val("t1"), body |-> Val("b1"), published |-> Val(FALSE),
     author_id |-> Val(1)] }

\* Request bodies sent to PATCH /blogs/{id}
UpdateBodies ==
  { [x \in {} |-> None],
    [title |-> None, body |-> Val("b2"), published |-> Val(FALSE)],
    [title |-> Val("t2"), author_id |-> Val(2), id |-> Val(2)] }

\* BlogCreate(**json): title, body, published (default True); other keys ignored
BlogCreate(json) ==
  [title |-> json.title.v, body |-> json.body.v,
   published |-> IF "published" \in DOMAIN json THEN json.published.v ELSE TRUE]

BlogUpdateFields == {"title", "body", "published"}

\* Mutant of BlogUpdate: keys that are no fields of the model are kept
BlogUpdateAllowExtra(json) ==
  [f \in BlogUpdateFields \cup DOMAIN json |->
     IF f \in DOMAIN json THEN json[f] ELSE None]

\* BlogUpdate(**json): every field Optional, default None; other keys ignored
BlogUpdate(json) ==
  [f \in BlogUpdateFields |-> IF f \in DOMAIN json THEN json[f] ELSE None]

\* blog.model_dump(exclude_none=True)
model_dump_exclude_none(blog) ==
  [f \in {g \in DOMAIN blog : blog[g] # None} |-> blog[f].v]

----------------------------------------------------------------------------
(* crud/blog.py *)

get_blog(db, blog_id) == FirstOrNone({b \in db : b.id = blog_id})

\* the row create_blog inserts; the store assigns the id
create_blog_row(blog, author_id, id) ==
  ("author_id" :> author_id) @@ ("id" :> id) @@ blog

\* db.table("blogs").update(payload).eq("id", blog_id): the table afterwards
UpdateRows(db, blog_id, payload) ==
  {IF b.id = blog_id THEN payload @@ b ELSE b : b \in db}

\* the table after update_blog
update_blog_db(db, blog_id, blog) ==
  LET payload == model_dump_exclude_none(blog) IN
    IF DOMAIN payload = {} THEN db ELSE UpdateRows(db, blog_id, payload)

\* what update_blog returns: the row, or None
update_blog_result(db, blog_id, blog) ==
  get_blog(update_blog_db(db, blog_id, blog), blog_id)

\* the table after delete_blog
delete_blog_db(db, blog_id) == {b \in db : b.id # blog_id}

----------------------------------------------------------------------------
(* Requests *)

Idle == [kind |-> "idle", pc |-> "idle", body |-> None, blog_id |-> 0,
         current_user |-> None, user_id |-> 0, resp |-> NoResp]

\* A request being handled: its kind, path parameter and body
Request(kind, blog_id, body) ==
  [Idle EXCEPT !.kind = kind, !.blog_id = blog_id, !.body = body]

\* the request with its response; the handler no longer holds the body
Answered(request, resp) ==
  [request EXCEPT !.pc = "done", !.resp = resp, !.body = None]

\* a slot is free before its first request and once its response is sent
IsFree(slot) == slot.pc \in {"idle", "done"}

\* the next request is taken by the first free slot (slots are interchangeable)
Free(r) ==
  /\ received < MaxRequests
  /\ IsFree(req[r]) /\ \A q \in 1..(r - 1) : ~IsFree(req[q])

Finish(r, resp) == req' = [req EXCEPT ![r] = Answered(req[r], resp)]

----------------------------------------------------------------------------
(* routers/auth.py: register *)

\* Registration payloads (UserCreate: username, email, password)
UserCreates ==
  { [username |-> "n1", email |-> "e1", password |-> "pw1"],
    [username |-> "n2", email |-> "e2", password |-> "pw2"] }

email_taken == Response(400, "An account with this email already exists", None)

\* Step 1: the duplicate email check
Register(r, user_data) ==
  /\ Free(r)
  /\ received' = received + 1
  /\ LET request == Request("register", 0, user_data)
         existing == get_user_by_email(profiles, user_data.email)
     IN IF existing # None
          THEN req' = [req EXCEPT ![r] = Answered(request, email_taken)]
          ELSE req' = [req EXCEPT ![r] = [request EXCEPT !.pc = "sign_up"]]
  /\ UNCHANGED <<authUsers, profiles, blogs, nextBlogId, tokens, clock>>
  /\ UNCHANGED tkVars

\* the id the provider gives the next identity
NewAuthId == Cardinality(authUsers) + 1

\* supabase_admin.auth.sign_up: the provider rejects an email it holds; it may
\* reject any request (weak password, ...) or answer without a user
SignUpOutcomes(email) ==
  IF \E a \in authUsers : a.email = email THEN {"AuthApiError"}
  ELSE {"AuthApiError", "no_user", "user"}

\* Step 2: create the identity
RegisterSignUp(r) ==
  /\ req[r].pc = "sign_up"
  /\ \E out \in SignUpOutcomes(req[r].body.email) :
       \/ /\ out = "AuthApiError"
          /\ Finish(r, Response(400, "AuthApiError", None))
          /\ UNCHANGED authUsers
       \/ /\ out = "no_user"
          /\ Finish(r, Response(500, "Registration failed", None))
          /\ UNCHANGED authUsers
       \/ /\ out = "user"
          /\ authUsers' = authUsers \cup
               {[id |-> NewAuthId, email |-> req[r].body.email,
                 password |-> req[r].body.password]}
          /\ req' = [req EXCEPT ![r].pc = "create_profile",
                                ![r].user_id = NewAuthId]
  /\ UNCHANGED <<profiles, blogs, nextBlogId, tokens, clock, received>>
  /\ UNCHANGED tkVars

\* Token(access_token=...)
Token(access_token) == [access_token |-> access_token, token_type |-> "bearer"]

\* Steps 3 and 4: insert the profile (the insert may raise), then issue the token
RegisterProfile(r) ==
  /\ req[r].pc = "create_profile"
  /\ LET user_id == req[r].user_id IN
     \E inserted \in BOOLEAN :
       IF inserted /\ ~(\E p \in profiles : p.id = user_id)
         THEN LET access_token ==
                    create_access_token([sub |-> user_id], None, clock)
              IN /\ profiles' = create_user_profile(profiles, user_id,
                                    req[r].body.username, req[r].body.email)
                 /\ tokens' = tokens \cup {access_token}
                 /\ Finish(r, Response(201, "", Token(access_token)))
         ELSE /\ Finish(r, Response(500, "Internal Server Error", None))
              /\ UNCHANGED <<profiles, tokens>>
  /\ UNCHANGED <<authUsers, blogs, nextBlogId, clock, received>>
  /\ UNCHANGED tkVars

----------------------------------------------------------------------------
(* routers/auth.py: login *)

\* OAuth2PasswordRequestForm: username (the email) and password
LoginForms ==
  { [username |-> "e1", password |-> "pw1"],
    [username |-> "e1", password |-> "pw2"],
    [username |-> "e2", password |-> "pw2"] }

\* supabase.auth.sign_in_with_password: the identity, or None for AuthApiError
SignIn(email, password) ==
  FirstOrNone({a \in authUsers : a.email = email /\ a.password = password})

Login(r, form_data) ==
  /\ Free(r)
  /\ received' = received + 1
  /\ LET request == Request("login", 0, form_data)
         user == SignIn(form_data.username, form_data.password)
     IN IF user = None
          THEN /\ req' = [req EXCEPT ![r] = Answered(request,
                       Response(401, "Invalid email or password", None))]
               /\ UNCHANGED tokens
          ELSE LET access_token ==
                     create_access_token([sub |-> user.id], None, clock)
               IN /\ req' = [req EXCEPT ![r] =
                       Answered([request EXCEPT !.user_id = user.id],
                                Response(200, "", Token(access_token)))]
                  /\ tokens' = tokens \cup {access_token}
  /\ UNCHANGED <<authUsers, profiles, blogs, nextBlogId, clock>>
  /\ UNCHANGED tkVars

----------------------------------------------------------------------------
(* routers/blogs.py *)

\* Tokens a client can send: those it was given, none, and ones it makes up
ForgedTokens ==
  {JwtEncode([sub |-> 1, exp |-> clock + access_token_expire_minutes],
             "other_key")}

ClientTokens == tokens \cup {NoToken, Malformed} \cup ForgedTokens

\* ids a request may name: those the store has given out, and the next one
RequestBlogIds == 1..nextBlogId

\* POST /blogs/
CreateBlog(r, token, json) ==
  /\ Free(r)
  /\ received' = received + 1
  /\ LET request == Request("create_blog", 0, json)
         auth == get_current_user(token, clock, profiles)
     IN IF ~auth.ok
          THEN /\ req' = [req EXCEPT ![r] = Answered(request, auth.raised)]
               /\ UNCHANGED <<blogs, nextBlogId>>
          ELSE LET row == create_blog_row(BlogCreate(json),
                                          StrOfUUID(auth.user.id), nextBlogId)
               IN /\ blogs' = blogs \cup {row}
                  /\ nextBlogId' = nextBlogId + 1
                  /\ req' = [req EXCEPT ![r] =
                       [Answered([request EXCEPT !.current_user = auth.user],
                                 Response(201, "", row)) EXCEPT !.body = json]]
  /\ UNCHANGED <<authUsers, profiles, tokens, clock>>
  /\ UNCHANGED tkVars

\* Mutant of NotAuthor: the blog's author is compared with itself
NotAuthorSelfCompared(existing, current_user) ==
  existing.author_id # existing.author_id

\* str(existing["author_id"]) != str(current_user.id)
NotAuthor(existing, current_user) ==
  existing.author_id # StrOfUUID(current_user.id)

\* Mutant of Guard: the blog is fetched and checked before the identity
GuardExistenceFirst(auth, existing) ==
  IF existing = None THEN Response(404, "Blog not found", None)
  ELSE IF ~auth.ok THEN auth.raised
  ELSE IF existing.author_id # StrOfUUID(auth.user.id)
    THEN Response(403, "You are not the author of this blog", None)
  ELSE NoResp

\* update_blog / delete_blog before the write: the response raised, or NoResp
Guard(auth, existing) ==
  IF ~auth.ok THEN auth.raised
  ELSE IF existing = None THEN Response(404, "Blog not found", None)
  ELSE IF NotAuthor(existing, auth.user)
    THEN Response(403, "You are not the author of this blog", None)
  ELSE NoResp

Guarded(r, kind, token, blog_id, json) ==
  /\ Free(r)
  /\ received' = received + 1
  /\ LET auth == get_current_user(token, clock, profiles)
         request == [Request(kind, blog_id, json) EXCEPT
                       !.current_user = IF auth.ok THEN auth.user ELSE None]
         raised == Guard(auth, get_blog(blogs, blog_id))
     IN IF raised # NoResp
          THEN req' = [req EXCEPT ![r] = Answered(request, raised)]
          ELSE req' = [req EXCEPT ![r] = [request EXCEPT !.pc = "authorized"]]
  /\ UNCHANGED <<authUsers, profiles, blogs, nextBlogId, tokens, clock>>
  /\ UNCHANGED tkVars

\* PATCH /blogs/{blog_id}: up to the ownership check
UpdateBlog(r, token, blog_id, json) ==
  Guarded(r, "update_blog", token, blog_id, json)

\* DELETE /blogs/{blog_id}: up to the ownership check
DeleteBlog(r, token, blog_id) ==
  Guarded(r, "delete_blog", token, blog_id, None)

\* response_model=BlogResponse: a handler that returns None fails validation
BlogResponse(value) ==
  IF value = None THEN Response(500, "Internal Server Error", None)
  ELSE Response(200, "", value)

\* update_blog: the write, and the response
UpdateBlogWrite(r) ==
  /\ req[r].kind = "update_blog" /\ req[r].pc = "authorized"
  /\ LET blog == BlogUpdate(req[r].body) IN
       /\ blogs' = update_blog_db(blogs, req[r].blog_id, blog)
       /\ Finish(r, BlogResponse(update_blog_result(blogs, req[r].blog_id, blog)))
  /\ UNCHANGED <<authUsers, profiles, nextBlogId, tokens, clock, received>>
  /\ UNCHANGED tkVars

\* delete_blog: the delete; 204 has no body
DeleteBlogWrite(r) ==
  /\ req[r].kind = "delete_blog" /\ req[r].pc = "authorized"
  /\ blogs' = delete_blog_db(blogs, req[r].blog_id)
  /\ Finish(r, Response(204, "", None))
  /\ UNCHANGED <<authUsers, profiles, nextBlogId, tokens, clock, received>>
  /\ UNCHANGED tkVars

----------------------------------------------------------------------------
(* Time *)

Tick(d) ==
  /\ clock + d <= MaxClock
  /\ clock' = clock + d
  /\ UNCHANGED <<authUsers, profiles, blogs, nextBlogId, tokens, req, received>>
  /\ UNCHANGED tkVars

----------------------------------------------------------------------------
(* The service *)

Init ==
  /\ authUsers = {}
  /\ profiles = {}
  /\ blogs = {}
  /\ nextBlogId = 1
  /\ tokens = {}
  /\ clock = 0
  /\ req = [r \in Reqs |-> Idle]
  /\ received = 0
  /\ tk = NoToken
  /\ tkIssue = None
  /\ tkRes = None

Next ==
  \/ \E r \in Reqs, u \in UserCreates : Register(r, u)
  \/ \E r \in Reqs : RegisterSignUp(r)
  \/ \E r \in Reqs : RegisterProfile(r)
  \/ \E r \in Reqs, f \in LoginForms : Login(r, f)
  \/ \E r \in Reqs, t \in ClientTokens, j \in CreateBodies : CreateBlog(r, t, j)
  \/ \E r \in Reqs, t \in ClientTokens, b \in RequestBlogIds, j \in UpdateBodies :
       UpdateBlog(r, t, b, j)
  \/ \E r \in Reqs, t \in ClientTokens, b \in RequestBlogIds : DeleteBlog(r, t, b)
  \/ \E r \in Reqs : UpdateBlogWrite(r)
  \/ \E r \in Reqs : DeleteBlogWrite(r)
  \/ Tick(access_token_expire_minutes + 1)

Spec == Init /\ [][Next]_vars

----------------------------------------------------------------------------
(* The token codec and the identity resolver alone *)

\* The profile store of the experiment: the first identity has its profile or not
TkProfileSets == { {}, {[id |-> 1, username |-> "n1", email |-> "e1"]} }

TkSubjects == {1, 2}

\* expires_delta arguments: None (the default) and explicit durations
ExpiryArgs == {None} \cup {timedelta(m) : m \in 0..MaxDelta}

\* Tokens made without create_access_token: a string that is no JWT, a token
\* signed with another key, and a token signed with the server's key that
\* carries no subject
MadeTokens ==
  { Malformed,
    JwtEncode([sub |-> 1, exp |-> clock + access_token_expire_minutes], "other_key"),
    JwtEncode([exp |-> clock + access_token_expire_minutes], "secret_key") }

TkInit ==
  /\ authUsers = { [id |-> 1, email |-> "e1", password |-> "pw1"],
                   [id |-> 2, email |-> "e2", password |-> "pw2"] }
  /\ profiles \in TkProfileSets
  /\ blogs = {}
  /\ nextBlogId = 1
  /\ tokens = {}
  /\ clock = 0
  /\ req = [r \in Reqs |-> Idle]
  /\ received = 0
  /\ tk = NoToken
  /\ tkIssue = None
  /\ tkRes = None

svcVars == <<authUsers, profiles, blogs, nextBlogId, tokens, req, received>>

\* create_access_token({"sub": sub}, expires_delta) at the current time, early
\* enough for the default expiry to pass before the clock ends
TkIssueToken(sub, expires_delta) ==
  /\ tk = NoToken
  /\ clock + access_token_expire_minutes < MaxClock
  /\ tk' = create_access_token([sub |-> sub], expires_delta, clock)
  /\ tkIssue' = [how |-> "issued", at |-> clock, expires_delta |-> expires_delta]
  /\ UNCHANGED <<clock, tkRes>>
  /\ UNCHANGED svcVars

TkMakeToken(token) ==
  /\ tk = NoToken
  /\ clock + access_token_expire_minutes < MaxClock
  /\ tk' = token
  /\ tkIssue' = [how |-> "made", at |-> clock, expires_delta |-> None]
  /\ UNCHANGED <<clock, tkRes>>
  /\ UNCHANGED svcVars

\* the token is presented: decode_access_token and get_current_user run on it
TkResolve ==
  /\ tk # NoToken
  /\ tkRes' = [at |-> clock,
               token_data |-> decode_access_token(tk, clock),
               auth |-> get_current_user(tk, clock, profiles)]
  /\ UNCHANGED <<clock, tk, tkIssue>>
  /\ UNCHANGED svcVars

\* a minute passes; the last result is discarded
TkTick ==
  /\ clock < MaxClock
  /\ clock' = clock + 1
  /\ tkRes' = None
  /\ UNCHANGED <<tk, tkIssue>>
  /\ UNCHANGED svcVars

TkNext ==
  \/ \E sub \in TkSubjects, d \in ExpiryArgs : TkIssueToken(sub, d)
  \/ \E t \in MadeTokens : TkMakeToken(t)
  \/ TkResolve
  \/ TkTick

TokenSpec == TkInit /\ [][TkNext]_vars

----------------------------------------------------------------------------
(* Claims about the token codec and the identity resolver (TokenSpec) *)

\* The presented token verifies at the time of the call and its subject has a
\* profile: what the specification requires for a successful resolve
TkVerifies ==
  /\ tk.form = "jwt"
  /\ tk.key = "secret_key"
  /\ tk.claims.exp >= tkRes.at
  /\ "sub" \in DOMAIN tk.claims

TkSubjectHasProfile == \E p \in profiles : p.id = tk.claims.sub

\* C4: get_current_user returns a profile only when the token verifies and a
\* profile with the token's subject id exists, and then that profile; for an
\* expired token, a malformed or wrongly signed token, a token without a
\* subject and a valid token whose subject has no profile it raises the same
\* 401 response, with the same detail.
C4_ResolveOrUniform401 ==
  tkRes # None =>
    /\ tkRes.auth.ok <=> (TkVerifies /\ TkSubjectHasProfile)
    /\ tkRes.auth.ok =>
         \E p \in profiles : /\ p.id = tk.claims.sub
                             /\ tkRes.auth.user = UserResponse(p)
    /\ ~tkRes.auth.ok => tkRes.auth.raised = credentials_exception

\* C4 witness: a token that verifies, whose subject has no profile, was
\* resolved and got the 401 an invalid token gets
C4_Witness ==
  /\ tkRes # None
  /\ TkVerifies /\ ~TkSubjectHasProfile
  /\ tkRes.token_data # None
  /\ tkRes.auth = [ok |-> FALSE, raised |-> credentials_exception]

\* C5: a token issued by create_access_token at time t with an explicit
\* expiry duration d >= 0 (d = 0 included) is rejected by decode_access_token
\* at every time after t + d.
C5_RejectedAfterExpiry ==
  (/\ tkIssue # None
   /\ tkIssue.how = "issued"
   /\ tkIssue.expires_delta # None
   /\ tkRes # None
   /\ tkRes.at > tkIssue.at + tkIssue.expires_delta.minutes)
  => tkRes.token_data = None

----------------------------------------------------------------------------
(* Claims about the service (Spec) *)

\* What the specification asks of a bearer token at time now: well formed,
\* signed with the server's key, not expired, carrying a subject
Verifies(token, now) ==
  /\ token.form = "jwt"
  /\ token.key = "secret_key"
  /\ token.claims.exp >= now
  /\ "sub" \in DOMAIN token.claims

\* the token resolves to an identity: it verifies and its subject has a profile
Resolves(token) ==
  Verifies(token, clock) /\ \E p \in profiles : p.id = token.claims.sub

\* the slot's request has a resolved identity, and it is the row's author
ByAuthor(slot, row) ==
  slot.current_user # None /\ StrOfUUID(slot.current_user.id) = row.author_id

GuardedKinds == {"update_blog", "delete_blog"}

\* this step receives a request, in slot r; the slot then holds the request's
\* kind and path parameter, and its body until the response is sent
Receives(r) == received' = received + 1 /\ Free(r)

\* C1, one step: (a) a row of blogs is changed or removed only by the write of
\* an update_blog/delete_blog request on that row whose resolved identity is
\* the row's author_id; (b) an update/delete request of an authenticated
\* non-owner on an existing post is answered 403 and leaves blogs unchanged;
\* (c) the owner's request on an existing post passes the checks, and its
\* write on the post answers 200 with the updated row (update) or 204 with
\* the row removed (delete).
C1_Step ==
  /\ \A b \in blogs : b \notin blogs' =>
       \E r \in Reqs :
         /\ req[r].kind \in GuardedKinds /\ req[r].pc = "authorized"
         /\ req[r].blog_id = b.id
         /\ ByAuthor(req[r], b)
         /\ req'[r].pc = "done"
  /\ \A r \in Reqs : Receives(r) =>
       \A kind \in GuardedKinds \cap {req'[r].kind}, t \in ClientTokens,
          id \in RequestBlogIds \cap {req'[r].blog_id} :
       Guarded(r, kind, t, id, req'[r].body) /\ req'[r].current_user # None =>
         \A b \in blogs : b.id = id =>
           IF ByAuthor(req'[r], b)
             THEN req'[r].pc = "authorized"
             ELSE /\ req'[r].pc = "done"
                  /\ req'[r].resp.status = 403
                  /\ blogs' = blogs
  /\ \A r \in Reqs, b \in blogs :
       req[r].blog_id = b.id =>
         /\ UpdateBlogWrite(r) =>
              /\ req'[r].resp.status = 200
              /\ req'[r].resp.body \in blogs'
              /\ req'[r].resp.body.id = b.id
         /\ DeleteBlogWrite(r) =>
              /\ req'[r].resp.status = 204
              /\ ~(\E c \in blogs' : c.id = b.id)

C1_OnlyAuthorMutates == [][C1_Step]_vars

\* C1 witness: a non-owner's update or delete was answered 403 while the post
\* it named is in the store
C1_Witness ==
  \E r \in Reqs, b \in blogs :
    /\ req[r].kind \in GuardedKinds /\ req[r].pc = "done"
    /\ req[r].resp.status = 403
    /\ req[r].blog_id = b.id
    /\ req[r].current_user # None /\ ~ByAuthor(req[r], b)

\* C2, one step: a row with a new id enters blogs only by a create_blog
\* request whose bearer token resolves, and the row's author_id is the id of
\* the profile with the token's subject, whatever the request body carries;
\* the response is 201 with that row.
C2_Step ==
  \A b \in blogs' :
    (~\E c \in blogs : c.id = b.id) =>
      \E r \in Reqs, t \in ClientTokens, j \in CreateBodies :
        /\ Receives(r)
        /\ CreateBlog(r, t, j)
        /\ Resolves(t)
        /\ b.author_id = t.claims.sub
        /\ req'[r].resp = Response(201, "", b)

C2_AuthorIsResolvedIdentity == [][C2_Step]_vars

\* C2 witness: a post was created by a request whose body named another
\* identity as author
C2_Witness ==
  \E r \in Reqs :
    /\ req[r].kind = "create_blog" /\ req[r].pc = "done"
    /\ req[r].resp.status = 201
    /\ req[r].resp.body \in blogs
    /\ "author_id" \in DOMAIN req[r].body
    /\ req[r].body.author_id.v # req[r].resp.body.author_id

\* C3, one step: an update_blog/delete_blog request whose token does not
\* resolve is answered 401 whether or not the id exists; one whose token
\* resolves and whose id does not exist is answered 404 (never 403); neither
\* changes blogs.
C3_Step ==
  \A r \in Reqs : Receives(r) =>
    \A kind \in GuardedKinds \cap {req'[r].kind}, t \in ClientTokens,
       id \in RequestBlogIds \cap {req'[r].blog_id} :
    Guarded(r, kind, t, id, req'[r].body) =>
      /\ ~Resolves(t) =>
           /\ req'[r].pc = "done" /\ req'[r].resp.status = 401
           /\ blogs' = blogs
      /\ (Resolves(t) /\ ~\E b \in blogs : b.id = id) =>
           /\ req'[r].pc = "done" /\ req'[r].resp.status = 404
           /\ blogs' = blogs

C3_CheckOrder == [][C3_Step]_vars

\* C3 witness: an authenticated request on an id that does not exist was
\* answered 404 while a post of another author is in the store
C3_Witness ==
  \E r \in Reqs :
    /\ req[r].kind \in GuardedKinds /\ req[r].pc = "done"
    /\ req[r].resp.status = 404
    /\ req[r].current_user # None
    /\ ~\E b \in blogs : b.id = req[r].blog_id
    /\ \E b \in blogs : ~ByAuthor(req[r], b)

\* C6, one step: a register request whose email is in the profile store is
\* answered 400 (email taken) at once, before the sign-up call: no identity
\* is created, no profile inserted, no token issued.
C6_Step ==
  \A r \in Reqs : Receives(r) =>
    \A u \in UserCreates :
      (Register(r, u) /\ \E p \in profiles : p.email = u.email) =>
        /\ req'[r].pc = "done"
        /\ req'[r].resp = email_taken /\ req'[r].resp.status = 400
        /\ authUsers' = authUsers
        /\ profiles' = profiles
        /\ tokens' = tokens

C6_EmailTakenBeforeProvider == [][C6_Step]_vars

\* C6 witness: a register request was answered "email taken" while a profile
\* and its identity exist
C6_Witness ==
  \E r \in Reqs :
    /\ req[r].kind = "register" /\ req[r].pc = "done"
    /\ req[r].resp = email_taken
    /\ \E p \in profiles, a \in authUsers : a.email = p.email

\* C7: every blog's author_id is the id of a profile, and every profile's id
\* is the id of an identity of the auth provider.
C7_References ==
  /\ \A b \in blogs : \E p \in profiles : p.id = b.author_id
  /\ \A p \in profiles : \E a \in authUsers : a.id = p.id

\* C7 witness: two profiles and a blog exist, and a request has failed
C7_Witness ==
  /\ Cardinality(profiles) = 2
  /\ blogs # {}
  /\ \E r \in Reqs : req[r].pc = "done" /\ req[r].resp.status >= 400

\* C8, one step: a register request gets 201 with a token only from the step
\* that inserts the profile, after the identity was created in that request;
\* then an identity and a profile with the token's subject as id exist, the
\* profile is new and carries the request's username and email, and
\* get_current_user resolves the token to that profile.
C8_Step ==
  \A r \in Reqs :
    (req'[r].kind = "register" /\ req'[r].resp.status = 201
       /\ (req[r].kind # "register" \/ req[r].pc # "done")) =>
      /\ RegisterProfile(r)
      /\ LET access_token == req'[r].resp.body.access_token
             id == access_token.claims.sub
             profile == [id |-> id, username |-> req[r].body.username,
                         email |-> req[r].body.email]
         IN /\ id = req[r].user_id
            /\ \E a \in authUsers' : a.id = id /\ a.email = req[r].body.email
            /\ profile \in profiles' /\ profile \notin profiles
            /\ access_token \in tokens'
            /\ get_current_user(access_token, clock', profiles')
                 = [ok |-> TRUE, user |-> UserResponse(profile)]

C8_TokenOnlyAfterBoth == [][C8_Step]_vars

\* C8 witness: a register request was answered 201 with a token
C8_Witness ==
  \E r \in Reqs :
    /\ req[r].kind = "register" /\ req[r].pc = "done"
    /\ req[r].resp.status = 201
    /\ req[r].resp.body.access_token \in tokens

\* C9: every PATCH /blogs/{id} request ends with 200 and the post, 401, 403
\* or 404.
C9_UpdateOutcomes ==
  \A r \in Reqs :
    (req[r].kind = "update_blog" /\ req[r].pc = "done") =>
      /\ req[r].resp.status \in {200, 401, 403, 404}
      /\ req[r].resp.status = 200 => req[r].resp.body # None

\* C10, one step: the write of an update_blog request on a post sets the
\* fields among title, body and published that the body supplies (not null)
\* and keeps the others; the post's id and author_id and every other post
\* stay as they are; a body that supplies no field leaves the store unchanged;
\* the response is 200 with the post as it then is.
C10_Step ==
  \A r \in Reqs : UpdateBlogWrite(r) =>
    LET json == req[r].body
        supplied == {f \in BlogUpdateFields \cap DOMAIN json : json[f] # None}
    IN /\ \A b \in blogs : b.id # req[r].blog_id => b \in blogs'
       /\ Cardinality(blogs') = Cardinality(blogs)
       /\ \A b \in blogs : b.id = req[r].blog_id =>
            \E c \in blogs' :
              /\ c.id = b.id
              /\ c.author_id = b.author_id
              /\ DOMAIN c = DOMAIN b
              /\ \A f \in supplied : c[f] = json[f].v
              /\ \A f \in BlogUpdateFields \ supplied : c[f] = b[f]
              /\ req'[r].resp = Response(200, "", c)
       /\ supplied = {} => blogs' = blogs

C10_UpdateFrame == [][C10_Step]_vars

\* C10 witness: an update changed the title of one post and was answered with
\* it, and another post is in the store
C10_Witness ==
  \E r \in Reqs :
    /\ req[r].kind = "update_blog" /\ req[r].pc = "done"
    /\ req[r].resp.status = 200
    /\ req[r].resp.body \in blogs
    /\ req[r].resp.body.title = "t2"
    /\ \E b \in blogs : b.id # req[r].blog_id

\* identities of the provider without a profile, none of them the identity of
\* a register request that has yet to insert its profile
Orphans(identities, rows, slots) ==
  {a \in identities :
     /\ ~\E p \in rows : p.id = a.id
     /\ ~\E r \in Reqs : slots[r].pc = "create_profile"
                           /\ slots[r].user_id = a.id}

\* C11, one step: (a) a register request whose profile insert fails is
\* answered without a token and leaves its identity with the provider, with
\* no profile; (b) an identity without a profile stays one; (c) login with its
\* email and password is answered 200 with a token for it that verifies, and
\* reads and writes no profile; (d) a create_blog, update_blog or delete_blog
\* request carrying a token issued for it is answered 401 by get_current_user
\* and changes nothing.
C11_Step ==
  /\ \A r \in Reqs :
       (RegisterProfile(r) /\ req'[r].resp.status # 201) =>
         /\ req'[r].resp.status = 500 /\ req'[r].resp.body = None
         /\ authUsers' = authUsers /\ tokens' = tokens
         /\ \E a \in Orphans(authUsers', profiles', req') :
              a.id = req[r].user_id /\ a.email = req[r].body.email
  /\ \A a \in Orphans(authUsers, profiles, req) :
       a \in Orphans(authUsers', profiles', req')
  /\ \A r \in Reqs : Receives(r) =>
       \A a \in Orphans(authUsers, profiles, req) :
         /\ Login(r, [username |-> a.email, password |-> a.password]) =>
              /\ req'[r].pc = "done" /\ req'[r].resp.status = 200
              /\ LET access_token == req'[r].resp.body.access_token
                 IN /\ access_token \in tokens'
                    /\ Verifies(access_token, clock')
                    /\ access_token.claims.sub = a.id
              /\ profiles' = profiles
         /\ \A t \in tokens : t.claims.sub = a.id =>
              /\ \A json \in CreateBodies : CreateBlog(r, t, json) =>
                   /\ req'[r].pc = "done"
                   /\ req'[r].resp = credentials_exception
                   /\ blogs' = blogs
              /\ \A kind \in GuardedKinds \cap {req'[r].kind},
                    id \in RequestBlogIds \cap {req'[r].blog_id} :
                   Guarded(r, kind, t, id, req'[r].body) =>
                     /\ req'[r].pc = "done"
                     /\ req'[r].resp = credentials_exception
                     /\ blogs' = blogs

C11_OrphanIdentity == [][C11_Step]_vars

\* C11 witness: an identity has no profile, a login with its credentials was
\* answered 200 with a token for it, and a later request on the blogs was
\* answered 401 by get_current_user while no token resolves
C11_Witness ==
  \E a \in Orphans(authUsers, profiles, req), r, q \in Reqs :
    /\ req[r].kind = "login" /\ req[r].pc = "done"
    /\ req[r].resp.status = 200
    /\ req[r].resp.body.access_token.claims.sub = a.id
    /\ req[r].resp.body.access_token \in tokens
    /\ req[q].kind \in GuardedKinds \cup {"create_blog"}
    /\ req[q].pc = "done"
    /\ req[q].resp = credentials_exception
    /\ profiles = {}

====
